---- MODULE Spec2Model ----
(***************************************************************************)
(* A model of the Chip-8 emulator of src/src/lib.rs: the emulator struct,  *)
(* load_rom, step (update_timer, key read, fetch, decode_execute with alu  *)
(* and draw) and the keypad latch of src/src/keypad.rs.                    *)
(*                                                                         *)
(* Sequences are 1-indexed: parameter[1..3] is the source's parameter[0..2]*)
(* and raw[1..2] is the source's raw[0..1].  The registers are a function  *)
(* on 0..15.  The two large arrays are kept as their difference from their *)
(* contents at construction: memory maps the addresses whose byte differs  *)
(* from the initial image (zeros and the font) to that byte, video_buffer  *)
(* maps the pixels that are not 0 to their value.  Both are read and       *)
(* written through MemRead/MemWrite, PixelRead and DrawBits only, which    *)
(* keep the representation canonical: equal arrays are equal maps.         *)
(***************************************************************************)
EXTENDS Integers, Sequences, FiniteSets, TLC

VARIABLES
  emu,      \* the ChipEmulator struct
  keypad,   \* SdlKeypad.key, the latch the SDL events write
  main_pc,  \* where main is: "load_rom", then "loop"
  last,     \* history: what the latest step fetched, and whether its 60Hz gate fired
  frame,    \* what main polled at its latest frame: the bell and the framebuffer
            \* flag; and the latest SDL event it handed to the keypad
  twin      \* a second ChipEmulator, constructed and driven like the first

vars == <<emu, keypad, main_pc, last, frame, twin>>

(***************************************************************************)
(* Program constants                                                       *)
(***************************************************************************)
MEMORY_SIZE == 4096
SCREEN_WIDTH == 64
SCREEN_HEIGHT == 32
FONT_ADDRESS == 80
START_ADDRESS == 512
FLAG == 15
ADDRESS_LIMIT == 4096

\* Time is counted in half timer periods: 1/60 s is TIMER_PERIOD units.
TIMER_PERIOD == 2

\* Bounds of the model
MaxGap == 4
MaxStack == 3

DEFAULT_FONT ==
  << 240, 144, 144, 144, 240,
      32,  96,  32,  32, 112,
     240,  16, 240, 128, 240,
     240,  16, 240,  16, 240,
     144, 144, 240,  16,  16,
     240, 128, 240,  16, 240,
     240, 128, 240, 144, 240,
     240,  16,  32,  64,  64,
     240, 144, 240, 144, 240,
     240, 144, 240,  16, 240,
     240, 144, 240, 144, 144,
     224, 144, 224, 144, 224,
     240, 128, 128, 128, 240,
     224, 144, 144, 144, 224,
     240, 128, 240, 128, 240,
     240, 128, 240, 128, 128 >>

\* Option<ChipKey>: None is the empty sequence, Some(k) is <<k>>.
None == <<>>

Some(k) == <<k>>

(***************************************************************************)
(* u8 arithmetic                                                           *)
(***************************************************************************)
Bit(v, i) == (v \div (2 ^ i)) % 2

Bits8(f(_)) ==
  f(0) + 2 * f(1) + 4 * f(2) + 8 * f(3) + 16 * f(4) + 32 * f(5) + 64 * f(6) + 128 * f(7)

BitOr(a, b) == Bits8(LAMBDA i : IF Bit(a, i) = 1 \/ Bit(b, i) = 1 THEN 1 ELSE 0)

BitAnd(a, b) == Bits8(LAMBDA i : IF Bit(a, i) = 1 /\ Bit(b, i) = 1 THEN 1 ELSE 0)

BitXor(a, b) == Bits8(LAMBDA i : IF Bit(a, i) # Bit(b, i) THEN 1 ELSE 0)

WrappingAdd(a, b) == (a + b) % 256

\* overflowing_add / overflowing_sub: <<wrapped result, overflowed>>
OverflowingAdd(a, b) == <<(a + b) % 256, a + b > 255>>

OverflowingSub(a, b) == <<(a - b + 256) % 256, a < b>>

Shl8(v, n) == (v * (2 ^ n)) % 256

Shr8(v, n) == v \div (2 ^ n)

FromBeBytes(hi, lo) == hi * 256 + lo

(***************************************************************************)
(* The arrays memory: [u8; 4096] and video_buffer: [u8; 64 * 32]           *)
(***************************************************************************)
EmptyMap == [a \in {} |-> 0]

InitialMemory(a) ==
  IF a >= FONT_ADDRESS /\ a < FONT_ADDRESS + Len(DEFAULT_FONT)
  THEN DEFAULT_FONT[a - FONT_ADDRESS + 1] ELSE 0

MemRead(m, a) == IF a \in DOMAIN m THEN m[a] ELSE InitialMemory(a)

MemWrite(m, a, v) ==
  LET keep == DOMAIN m \ {a}
  IN IF v = InitialMemory(a)
     THEN [b \in keep |-> m[b]]
     ELSE [b \in keep \cup {a} |-> IF b = a THEN v ELSE m[b]]

PixelRead(vb, at) == IF at \in DOMAIN vb THEN vb[at] ELSE 0


(***************************************************************************)
(* ChipInstruction::new                                                    *)
(***************************************************************************)
ChipInstruction(b0, b1) ==
  [ raw |-> <<b0, b1>>,
    op_code |-> Shr8(b0, 4),
    parameter |-> <<BitAnd(b0, 15), Shr8(b1, 4), BitAnd(b1, 15)>> ]

(***************************************************************************)
(* A panic aborts the process: the emulator takes no further step.         *)
(***************************************************************************)
Panic(e, msg) == [e EXCEPT !.panic = msg]

Running(e) == e.panic = "none"

\* The framebuffer has been handed out as updated (display.update in this
\* revision of lib.rs; the "updated since last read" flag of the spec).
MarkUpdated(e) == [e EXCEPT !.buffer_updated = TRUE]

\* get_video_buffer, which main calls once per frame: it returns the buffer
\* with e.buffer_updated and leaves the emulator with the flag cleared.
get_video_buffer(e) == [e EXCEPT !.buffer_updated = FALSE]

\* get_bell_status, which main polls once per frame.
get_bell_status(e) == e.sound_timer # 0

(***************************************************************************)
(* ChipEmulator::initialize                                                *)
(***************************************************************************)
Initialize(config, overflow_checks) ==
  [ memory |-> EmptyMap,
    video_buffer |-> EmptyMap,
    program_counter |-> START_ADDRESS,
    index_pointer |-> 0,
    stack |-> <<>>,
    registers |-> [r \in 0..15 |-> 0],
    delay_timer |-> 0,
    sound_timer |-> 0,
    key |-> None,
    since_timer_update |-> 0,
    buffer_updated |-> FALSE,
    config |-> config,
    overflow_checks |-> overflow_checks,
    panic |-> "none" ]

(***************************************************************************)
(* ChipEmulator::load_rom: the file's bytes are read into                  *)
(* memory[START_ADDRESS .. START_ADDRESS + size); taking that slice panics *)
(* when it ends beyond the memory.                                         *)
(***************************************************************************)
\* read_exact into the slice: the bytes rom[i + 1 ..] land at
\* START_ADDRESS + i .. in one call.
ReadExact(m, rom, i) ==
  LET written == (START_ADDRESS + i)..(START_ADDRESS + Len(rom) - 1)
      New(a) == IF a \in written THEN rom[a - START_ADDRESS + 1] ELSE MemRead(m, a)
  IN [a \in { c \in DOMAIN m \cup written : New(c) # InitialMemory(c) } |-> New(a)]

\* (defect) the program counter is left where it was
load_rom_keep_pc(e, rom) ==
  IF START_ADDRESS + Len(rom) > MEMORY_SIZE
  THEN Panic(e, "range end index out of range")
  ELSE [e EXCEPT !.memory = ReadExact(e.memory, rom, 0)]

\* (defect) a file that does not fit is read as far as the memory goes
load_rom_truncating(e, rom) ==
  LET fits == SubSeq(rom, 1, MEMORY_SIZE - START_ADDRESS)
  IN IF START_ADDRESS + Len(rom) > MEMORY_SIZE
     THEN Panic([e EXCEPT !.memory = ReadExact(e.memory, fits, 0)],
                "failed to fill whole buffer")
     ELSE [e EXCEPT !.memory = ReadExact(e.memory, rom, 0),
                    !.program_counter = START_ADDRESS]

load_rom(e, rom) ==
  IF START_ADDRESS + Len(rom) > MEMORY_SIZE
  THEN Panic(e, "range end index out of range")
  ELSE [e EXCEPT !.memory = ReadExact(e.memory, rom, 0),
                 !.program_counter = START_ADDRESS]

(***************************************************************************)
(* ChipEmulator::update_timer.  elapsed is last_timer_update.elapsed().    *)
(***************************************************************************)
\* (defect) only the sound timer is counted down
update_timer_sound_only(e, elapsed) ==
  IF elapsed >= TIMER_PERIOD
  THEN [e EXCEPT
          !.sound_timer = IF e.sound_timer > 0 THEN e.sound_timer - 1 ELSE e.sound_timer,
          !.since_timer_update = 0]
  ELSE [e EXCEPT !.since_timer_update = elapsed]

\* (defect) the timers catch up: one decrement per period elapsed
update_timer_catch_up(e, elapsed) ==
  LET periods == elapsed \div TIMER_PERIOD
  IN IF elapsed >= TIMER_PERIOD
     THEN [e EXCEPT
             !.sound_timer = IF @ > periods THEN @ - periods ELSE 0,
             !.delay_timer = IF @ > periods THEN @ - periods ELSE 0,
             !.since_timer_update = 0]
     ELSE [e EXCEPT !.since_timer_update = elapsed]

update_timer(e, elapsed) ==
  IF elapsed >= TIMER_PERIOD
  THEN [e EXCEPT
          !.sound_timer = IF e.sound_timer > 0 THEN e.sound_timer - 1 ELSE e.sound_timer,
          !.delay_timer = IF e.delay_timer > 0 THEN e.delay_timer - 1 ELSE e.delay_timer,
          !.since_timer_update = 0]
  ELSE [e EXCEPT !.since_timer_update = elapsed]

(***************************************************************************)
(* ChipEmulator::fetch.  Indexing the memory array panics out of bounds.   *)
(***************************************************************************)
FetchPanics(e) == e.program_counter + 1 >= MEMORY_SIZE

FetchedInstruction(e) ==
  ChipInstruction(MemRead(e.memory, e.program_counter),
                  MemRead(e.memory, e.program_counter + 1))

fetch(e) ==
  IF FetchPanics(e)
  THEN Panic(e, "index out of bounds")
  ELSE [e EXCEPT !.program_counter = e.program_counter + 2]

(***************************************************************************)
(* The arms of decode_execute                                              *)
(***************************************************************************)
\* (defect) the screen is handed out again but not zeroed
ClearScreenKeep(e) == MarkUpdated(e)

ClearScreen(e) == MarkUpdated([e EXCEPT !.video_buffer = EmptyMap])

Jump(e, address) == [e EXCEPT !.program_counter = address]

\* (defect) the address of the call itself is pushed
CallPushCurrent(e, address) ==
  [e EXCEPT !.stack = Append(e.stack, e.program_counter - 2),
            !.program_counter = address]

Call(e, address) ==
  [e EXCEPT !.stack = Append(e.stack, e.program_counter),
            !.program_counter = address]

\* (defect) the target is reduced to the 12 bits of an address
JumpOffsetMasked(e, x, address) ==
  LET reg_offset == IF e.config.offset_jump_vx THEN e.registers[x] ELSE e.registers[0]
  IN [e EXCEPT !.program_counter = (address + reg_offset) % ADDRESS_LIMIT]

JumpOffset(e, x, address) ==
  LET reg_offset == IF e.config.offset_jump_vx THEN e.registers[x] ELSE e.registers[0]
  IN [e EXCEPT !.program_counter = address + reg_offset]

\* (defect) an empty stack yields a default address instead of a panic
ReturnOrDefault(e) ==
  IF e.stack = <<>>
  THEN [e EXCEPT !.program_counter = 0]
  ELSE [e EXCEPT !.program_counter = e.stack[Len(e.stack)],
                 !.stack = SubSeq(e.stack, 1, Len(e.stack) - 1)]

Return(e) ==
  IF e.stack = <<>>
  THEN Panic(e, "Tried to pop an empty stack")
  ELSE [e EXCEPT !.program_counter = e.stack[Len(e.stack)],
                 !.stack = SubSeq(e.stack, 1, Len(e.stack) - 1)]

Skip(e) == [e EXCEPT !.program_counter = e.program_counter + 2]

SkipEqImm(e, x, nn) == IF e.registers[x] = nn THEN Skip(e) ELSE e

SkipNeqImm(e, x, nn) == IF e.registers[x] # nn THEN Skip(e) ELSE e

SkipEqReg(e, x, y) == IF e.registers[x] = e.registers[y] THEN Skip(e) ELSE e

SkipNeqReg(e, x, y) == IF e.registers[x] # e.registers[y] THEN Skip(e) ELSE e

SetImm(e, x, nn) == [e EXCEPT !.registers[x] = nn]

\* (defect) the addition reports its carry in the flag register
AddImmCarry(e, x, nn) ==
  LET e1 == [e EXCEPT !.registers[x] = WrappingAdd(nn, e.registers[x])]
  IN [e1 EXCEPT !.registers[FLAG] = IF nn + e.registers[x] > 255 THEN 1 ELSE 0]

AddImm(e, x, nn) == [e EXCEPT !.registers[x] = WrappingAdd(nn, e.registers[x])]

SetIndex(e, address) == [e EXCEPT !.index_pointer = address]

\* (defect) the random byte is OR-ed with the immediate
RandomAndOr(e, x, nn, random_number) ==
  [e EXCEPT !.registers[x] = BitOr(random_number, nn)]

RandomAnd(e, x, nn, random_number) ==
  [e EXCEPT !.registers[x] = BitAnd(random_number, nn)]

ReadDelayTimer(e, x) == [e EXCEPT !.registers[x] = e.delay_timer]

SetDelayTimer(e, x) == [e EXCEPT !.delay_timer = e.registers[x]]

\* (defect) the register is stored in the delay timer
SetSoundTimerAsDelay(e, x) == [e EXCEPT !.delay_timer = e.registers[x]]

SetSoundTimer(e, x) == [e EXCEPT !.sound_timer = e.registers[x]]

\* index_pointer is a u16: the addition panics on overflow in a build with
\* overflow checks and wraps in one without.
AddToIndex(e, x) ==
  LET sum == e.index_pointer + e.registers[x]
  IN IF sum > 65535 /\ e.overflow_checks
     THEN Panic(e, "attempt to add with overflow")
     ELSE LET ip == sum % 65536
          IN [e EXCEPT !.index_pointer = ip,
                       !.registers[FLAG] = IF ip >= ADDRESS_LIMIT THEN 1 ELSE 0]

RECURSIVE StoreRegistersFrom(_, _, _)
StoreRegistersFrom(e, i, x) ==
  IF i > x THEN e
  ELSE IF e.index_pointer + i >= MEMORY_SIZE
       THEN Panic(e, "index out of bounds")
       ELSE StoreRegistersFrom(
              [e EXCEPT !.memory = MemWrite(e.memory, e.index_pointer + i, e.registers[i])],
              i + 1, x)

\* (defect) the address wraps around the end of the memory
RECURSIVE StoreRegistersWrapping(_, _, _)
StoreRegistersWrapping(e, i, x) ==
  IF i > x THEN e
  ELSE StoreRegistersWrapping(
         [e EXCEPT !.memory = MemWrite(e.memory, (e.index_pointer + i) % MEMORY_SIZE,
                                       e.registers[i])],
         i + 1, x)

\* (defect) the store wraps instead of panicking
StoreRegistersWrap(e, x) == StoreRegistersWrapping(e, 0, x)

StoreRegisters(e, x) == StoreRegistersFrom(e, 0, x)

RECURSIVE LoadRegistersFrom(_, _, _)
LoadRegistersFrom(e, i, x) ==
  IF i > x THEN e
  ELSE IF e.index_pointer + i >= MEMORY_SIZE
       THEN Panic(e, "index out of bounds")
       ELSE LoadRegistersFrom(
              [e EXCEPT !.registers[i] = MemRead(e.memory, e.index_pointer + i)], i + 1, x)

\* (defect) the load stops before register x
LoadRegistersExclusive(e, x) == LoadRegistersFrom(e, 0, x - 1)

LoadRegisters(e, x) == LoadRegistersFrom(e, 0, x)

\* (defect) the wait does not rewind the program counter
AwaitKeyNoRewind(e, x) ==
  IF e.key # None THEN [e EXCEPT !.registers[x] = e.key[1]] ELSE e

\* (defect) the key is stored but the instruction is repeated all the same
AwaitKeyStuck(e, x) ==
  IF e.key # None
  THEN [e EXCEPT !.registers[x] = e.key[1], !.program_counter = @ - 2]
  ELSE [e EXCEPT !.program_counter = @ - 2]

AwaitKey(e, x) ==
  IF e.key # None
  THEN [e EXCEPT !.registers[x] = e.key[1]]
  ELSE [e EXCEPT !.program_counter = e.program_counter - 2]

SkipIfKey(e, x) ==
  IF e.key # None
  THEN (IF e.registers[x] = e.key[1] THEN Skip(e) ELSE e)
  ELSE e

\* (defect) with no key latched the next instruction is not skipped
SkipIfNotKeyLatched(e, x) ==
  IF e.key # None
  THEN (IF e.registers[x] # e.key[1] THEN Skip(e) ELSE e)
  ELSE e

SkipIfNotKey(e, x) ==
  IF e.key # None
  THEN (IF e.registers[x] # e.key[1] THEN Skip(e) ELSE e)
  ELSE Skip(e)

FontChar(e, x) ==
  [e EXCEPT !.index_pointer = FONT_ADDRESS + BitAnd(e.registers[x], 15) * 5]

RECURSIVE StoreDigits(_, _, _)
StoreDigits(e, digits, i) ==
  IF i >= Len(digits) THEN e
  ELSE IF e.index_pointer + i >= MEMORY_SIZE
       THEN Panic(e, "index out of bounds")
       ELSE StoreDigits(
              [e EXCEPT !.memory = MemWrite(e.memory, e.index_pointer + i, digits[i + 1])],
              digits, i + 1)

StoreBcd(e, x) ==
  LET number == e.registers[x]
  IN StoreDigits(e, <<number \div 100, (number \div 10) % 10, number % 10>>, 0)

Unrecognized(e) == e

(***************************************************************************)
(* ChipEmulator::alu                                                       *)
(***************************************************************************)
AluSet(e, x, y) == [e EXCEPT !.registers[x] = e.registers[y]]

AluOr(e, x, y) == [e EXCEPT !.registers[x] = BitOr(e.registers[x], e.registers[y])]

AluAnd(e, x, y) == [e EXCEPT !.registers[x] = BitAnd(e.registers[x], e.registers[y])]

AluXor(e, x, y) == [e EXCEPT !.registers[x] = BitXor(e.registers[x], e.registers[y])]

\* (defect) the flag register is written before the destination
AluAddFlagFirst(e, x, y) ==
  LET add_result == OverflowingAdd(e.registers[x], e.registers[y])
      e1 == [e EXCEPT !.registers[FLAG] = IF add_result[2] THEN 1 ELSE 0]
  IN [e1 EXCEPT !.registers[x] = add_result[1]]

\* The flag register is written after the destination (two assignments in
\* the source), so it wins when x is the flag register.
AluAdd(e, x, y) ==
  LET add_result == OverflowingAdd(e.registers[x], e.registers[y])
      e1 == [e EXCEPT !.registers[x] = add_result[1]]
  IN [e1 EXCEPT !.registers[FLAG] = IF add_result[2] THEN 1 ELSE 0]

\* (defect) equal operands count as a borrow
AluSubStrict(e, x, y) ==
  LET sub_result == OverflowingSub(e.registers[x], e.registers[y])
      e1 == [e EXCEPT !.registers[x] = sub_result[1]]
  IN [e1 EXCEPT !.registers[FLAG] = IF e.registers[x] > e.registers[y] THEN 1 ELSE 0]

AluSub(e, x, y) ==
  LET sub_result == OverflowingSub(e.registers[x], e.registers[y])
      e1 == [e EXCEPT !.registers[x] = sub_result[1]]
  IN [e1 EXCEPT !.registers[FLAG] = IF sub_result[2] THEN 0 ELSE 1]

AluSubReverse(e, x, y) ==
  LET sub_result == OverflowingSub(e.registers[y], e.registers[x])
      e1 == [e EXCEPT !.registers[x] = sub_result[1]]
  IN [e1 EXCEPT !.registers[FLAG] = IF sub_result[2] THEN 0 ELSE 1]

\* (defect) register y is copied whatever the configuration says
AluShiftRightCopying(e, x, y) ==
  LET e0 == [e EXCEPT !.registers[x] = e.registers[y]]
      value_x == e0.registers[x]
      e1 == [e0 EXCEPT !.registers[x] = Shr8(value_x, 1)]
  IN [e1 EXCEPT !.registers[FLAG] = BitAnd(value_x, 1)]

AluShiftRight(e, x, y) ==
  LET e0 == IF e.config.copy_y_on_shift
            THEN [e EXCEPT !.registers[x] = e.registers[y]] ELSE e
      value_x == e0.registers[x]
      e1 == [e0 EXCEPT !.registers[x] = Shr8(value_x, 1)]
  IN [e1 EXCEPT !.registers[FLAG] = BitAnd(value_x, 1)]

\* (defect) register x is shifted in place whatever the configuration says
AluShiftLeftInPlace(e, x, y) ==
  LET value_x == e.registers[x]
      e1 == [e EXCEPT !.registers[x] = Shl8(value_x, 1)]
  IN [e1 EXCEPT !.registers[FLAG] = Shr8(value_x, 7)]

AluShiftLeft(e, x, y) ==
  LET e0 == IF e.config.copy_y_on_shift
            THEN [e EXCEPT !.registers[x] = e.registers[y]] ELSE e
      value_x == e0.registers[x]
      e1 == [e0 EXCEPT !.registers[x] = Shl8(value_x, 1)]
  IN [e1 EXCEPT !.registers[FLAG] = Shr8(value_x, 7)]

\* (defect) an unknown selector sets the flag register
AluUnrecognizedFlag(e) == [e EXCEPT !.registers[FLAG] = 1]

AluUnrecognized(e) == e

alu(e, parameter) ==
  LET x == parameter[1]
      y == parameter[2]
  IN CASE parameter[3] = 0 -> AluSet(e, x, y)
       [] parameter[3] = 1 -> AluOr(e, x, y)
       [] parameter[3] = 2 -> AluAnd(e, x, y)
       [] parameter[3] = 3 -> AluXor(e, x, y)
       [] parameter[3] = 4 -> AluAdd(e, x, y)
       [] parameter[3] = 5 -> AluSub(e, x, y)
       [] parameter[3] = 7 -> AluSubReverse(e, x, y)
       [] parameter[3] = 6 -> AluShiftRight(e, x, y)
       [] parameter[3] = 14 -> AluShiftLeft(e, x, y)
       [] OTHER -> AluUnrecognized(e)

(***************************************************************************)
(* ChipEmulator::draw                                                      *)
(***************************************************************************)
\* (defect) the sprite bit itself, 128, is stored in the pixel
DrawnPixelRaw(pixel, sprite_pixel) ==
  IF sprite_pixel # 0 /\ pixel # 0 THEN 0
  ELSE IF sprite_pixel # 0 /\ pixel = 0 THEN sprite_pixel
  ELSE pixel

\* (defect) the sprite is OR-ed onto the screen: a collision leaves the pixel set
DrawnPixelOr(pixel, sprite_pixel) ==
  IF sprite_pixel # 0 THEN 1 ELSE pixel

\* One iteration of the inner loop, at pixel value pixel: the value the
\* pixel is left with, and whether the iteration sets the flag register.
DrawnPixel(pixel, sprite_pixel) ==
  IF sprite_pixel # 0 /\ pixel # 0 THEN 0
  ELSE IF sprite_pixel # 0 /\ pixel = 0 THEN 1
  ELSE pixel

\* (defect) a set screen pixel counts as a collision whatever the sprite bit
CollidesWithAny(pixel, sprite_pixel) == pixel # 0

Collides(pixel, sprite_pixel) == sprite_pixel # 0 /\ pixel # 0

\* The inner loop over bit_index in 0..8 for the sprite byte sprite_row at
\* screen row y.  The eight iterations address eight different pixels
\* ((sprite_x + bit_index) % 64 with bit_index < 8), so each reads the pixel
\* as it was before the loop, and the loop is their joint effect.
DrawBits(e, sprite_row, sprite_x, y) ==
  LET At(bit_index) == (SCREEN_WIDTH * y) + ((sprite_x + bit_index) % 64)
      SpritePixel(bit_index) == BitAnd(Shl8(sprite_row, bit_index), 128)
      Old(at) == PixelRead(e.video_buffer, at)
      touched == { At(bit_index) : bit_index \in 0..7 }
      BitOf(at) == CHOOSE bit_index \in 0..7 : At(bit_index) = at
      New(at) == IF at \in touched
                 THEN DrawnPixel(Old(at), SpritePixel(BitOf(at)))
                 ELSE Old(at)
      collision == \E bit_index \in 0..7 :
                     Collides(Old(At(bit_index)), SpritePixel(bit_index))
      video_buffer == [at \in { c \in DOMAIN e.video_buffer \cup touched : New(c) # 0 }
                         |-> New(at)]
  IN [e EXCEPT !.video_buffer = video_buffer,
               !.registers[FLAG] = IF collision THEN 1 ELSE @]

\* (defect) rows past the bottom of the screen go on at its top
RECURSIVE DrawRowsWrapping(_, _, _, _, _)
DrawRowsWrapping(e, sprite_x, sprite_y, row, rows) ==
  IF row >= rows THEN e
  ELSE LET y == (sprite_y + row) % 32
       IN DrawRowsWrapping(
            DrawBits(e, MemRead(e.memory, e.index_pointer + row), sprite_x, y),
            sprite_x, sprite_y, row + 1, rows)

\* The outer loop over the sprite rows memory[index_pointer + row].
RECURSIVE DrawRows(_, _, _, _, _)
DrawRows(e, sprite_x, sprite_y, row, rows) ==
  IF row >= rows THEN e
  ELSE LET y == sprite_y + row
       IN IF y >= 32 THEN e
          ELSE DrawRows(DrawBits(e, MemRead(e.memory, e.index_pointer + row), sprite_x, y),
                        sprite_x, sprite_y, row + 1, rows)

\* (defect) the screen is drawn on but not handed out
draw_without_update(e, parameter) ==
  LET rows == parameter[3]
      sprite_x == e.registers[parameter[1]] % 64
      sprite_y == e.registers[parameter[2]] % 32
  IN IF e.index_pointer + rows > MEMORY_SIZE
     THEN Panic(e, "range end index out of range")
     ELSE DrawRows([e EXCEPT !.registers[FLAG] = 0], sprite_x, sprite_y, 0, rows)

draw(e, parameter) ==
  LET rows == parameter[3]
      sprite_x == e.registers[parameter[1]] % 64
      sprite_y == e.registers[parameter[2]] % 32
  IN IF e.index_pointer + rows > MEMORY_SIZE
     THEN Panic(e, "range end index out of range")
     ELSE MarkUpdated(
            DrawRows([e EXCEPT !.registers[FLAG] = 0], sprite_x, sprite_y, 0, rows))

(***************************************************************************)
(* ChipEmulator::decode_execute.  random_number is thread_rng().gen().     *)
(***************************************************************************)
decode_execute(e, instruction, random_number) ==
  LET op == instruction.op_code
      p == instruction.parameter
      x == p[1]
      y == p[2]
      nn == instruction.raw[2]
      address == FromBeBytes(p[1], instruction.raw[2])
  IN CASE op = 0 /\ p = <<0, 14, 0>> -> ClearScreen(e)
       [] op = 1 -> Jump(e, address)
       [] op = 2 -> Call(e, address)
       [] op = 11 -> JumpOffset(e, x, address)
       [] op = 0 /\ p = <<0, 14, 14>> -> Return(e)
       [] op = 3 -> SkipEqImm(e, x, nn)
       [] op = 4 -> SkipNeqImm(e, x, nn)
       [] op = 5 /\ p[3] = 0 -> SkipEqReg(e, x, y)
       [] op = 9 /\ p[3] = 0 -> SkipNeqReg(e, x, y)
       [] op = 8 -> alu(e, p)
       [] op = 6 -> SetImm(e, x, nn)
       [] op = 7 -> AddImm(e, x, nn)
       [] op = 10 -> SetIndex(e, address)
       [] op = 12 -> RandomAnd(e, x, nn, random_number)
       [] op = 15 /\ p[2] = 0 /\ p[3] = 7 -> ReadDelayTimer(e, x)
       [] op = 15 /\ p[2] = 1 /\ p[3] = 5 -> SetDelayTimer(e, x)
       [] op = 15 /\ p[2] = 1 /\ p[3] = 8 -> SetSoundTimer(e, x)
       [] op = 15 /\ p[2] = 1 /\ p[3] = 14 -> AddToIndex(e, x)
       [] op = 15 /\ p[2] = 5 /\ p[3] = 5 -> StoreRegisters(e, x)
       [] op = 15 /\ p[2] = 6 /\ p[3] = 5 -> LoadRegisters(e, x)
       [] op = 15 /\ p[2] = 0 /\ p[3] = 10 -> AwaitKey(e, x)
       [] op = 14 /\ p[2] = 9 /\ p[3] = 14 -> SkipIfKey(e, x)
       [] op = 14 /\ p[2] = 10 /\ p[3] = 1 -> SkipIfNotKey(e, x)
       [] op = 15 /\ p[2] = 2 /\ p[3] = 9 -> FontChar(e, x)
       [] op = 15 /\ p[2] = 3 /\ p[3] = 3 -> StoreBcd(e, x)
       [] op = 13 -> draw(e, p)
       [] OTHER -> Unrecognized(e)

(***************************************************************************)
(* ChipEmulator::step.  gap is the time that has passed since the previous *)
(* step returned, key is what keypad.get_key() returns.                    *)
(***************************************************************************)
\* (defect) the timers are updated after the instruction has been executed
step_timer_last(e, gap, key, random_number) ==
  LET e2 == [e EXCEPT !.key = key]
      e3 == fetch(e2)
      e4 == IF Running(e3)
            THEN decode_execute(e3, FetchedInstruction(e2), random_number)
            ELSE e3
  IN IF Running(e4) THEN update_timer(e4, e.since_timer_update + gap) ELSE e4

step(e, gap, key, random_number) ==
  LET e1 == update_timer(e, e.since_timer_update + gap)
      e2 == [e1 EXCEPT !.key = key]
      e3 == fetch(e2)
  IN IF Running(e3)
     THEN decode_execute(e3, FetchedInstruction(e2), random_number)
     ELSE e3

(***************************************************************************)
(* SdlKeypad::process_sdl_event, by the chip key an event is mapped to     *)
(***************************************************************************)
key_down(k) == Some(k)

key_up(k) == None

\* The key code of each chip key 0..15, as the KeyDown arms of
\* process_sdl_event map them.
Keycodes ==
  << "X", "Num1", "Num2", "Num3", "Q", "W", "E", "A",
     "S", "D", "Z", "C", "Num4", "R", "F", "V" >>

Mapped(keycode) == \E i \in 1..Len(Keycodes) : Keycodes[i] = keycode

ChipKeyOf(keycode) == (CHOOSE i \in 1..Len(Keycodes) : Keycodes[i] = keycode) - 1

\* (defect) a key-up empties the latch only if it releases the latched key
process_sdl_event_own_key(key, event) ==
  IF event.kind = "KeyDown" /\ Mapped(event.keycode)
  THEN [key |-> key_down(ChipKeyOf(event.keycode)), handled |-> TRUE]
  ELSE IF event.kind = "KeyUp" /\ Mapped(event.keycode)
       THEN [key |-> IF key = Some(ChipKeyOf(event.keycode)) THEN None ELSE key,
             handled |-> TRUE]
       ELSE [key |-> key, handled |-> FALSE]

\* process_sdl_event on the latch key: the latch it leaves and the value it
\* returns.  Every event that is not a KeyDown or KeyUp of one of the 16
\* mapped key codes takes the last arm.
process_sdl_event(key, event) ==
  IF event.kind = "KeyDown" /\ Mapped(event.keycode)
  THEN [key |-> key_down(ChipKeyOf(event.keycode)), handled |-> TRUE]
  ELSE IF event.kind = "KeyUp" /\ Mapped(event.keycode)
       THEN [key |-> key_up(ChipKeyOf(event.keycode)), handled |-> TRUE]
       ELSE [key |-> key, handled |-> FALSE]

(***************************************************************************)
(* ROM images: the byte sequences load_rom reads.  Every assembled program *)
(* ends in two jumps to themselves, so that a program that has run (or     *)
(* skipped its last instruction) stays where it is.                        *)
(***************************************************************************)
Ins(a, b, c, d) == <<a * 16 + b, c * 16 + d>>

InsNN(a, x, nn) == <<a * 16 + x, nn>>

InsAddr(a, address) == <<a * 16 + (address \div 256), address % 256>>

RECURSIVE Flatten(_)
Flatten(instrs) ==
  IF instrs = <<>> THEN <<>> ELSE Head(instrs) \o Flatten(Tail(instrs))

Prog(instrs) ==
  LET end == START_ADDRESS + 2 * Len(instrs)
  IN Flatten(instrs) \o InsAddr(1, end) \o InsAddr(1, end + 2)

RegSamples == {0, 7, 15}

AllRegs == 0..15

ByteSamples == {0, 1, 128, 255}

AluSelectors == 0..15

\* set x, set y, then one ALU instruction on (x, y)
RomsAluOps ==
  { Prog(<<InsNN(6, x, v), InsNN(6, y, w), Ins(8, x, y, n)>>) :
      x \in RegSamples, y \in RegSamples, v \in ByteSamples, w \in ByteSamples,
      n \in AluSelectors }

\* set the flag register, set x, then add an immediate to x
RomsAddImm ==
  { Prog(<<InsNN(6, 15, 9), InsNN(6, x, v), InsNN(7, x, b)>>) :
      x \in AllRegs, v \in ByteSamples, b \in ByteSamples }

RomsAlu == RomsAluOps \cup RomsAddImm

KeySamples == {0, 1, 15}

\* set x, then one of the three key instructions on x
RomsKeys ==
  { Prog(<<InsNN(6, 15, 9), InsNN(6, x, v), Ins(k[1], x, k[2], k[3])>>) :
      x \in RegSamples, v \in {0, 15, 200},
      k \in {<<15, 0, 10>>, <<14, 9, 14>>, <<14, 10, 1>>} }

\* Timers running, a sprite on the screen and a return address on the
\* stack; the next instruction is at START_ADDRESS + 12.
Busy ==
  << InsNN(6, 1, 3), Ins(15, 1, 1, 5), Ins(15, 1, 1, 8),
     InsAddr(10, FONT_ADDRESS), Ins(13, 0, 0, 5), InsAddr(2, START_ADDRESS + 12) >>

UnrecognizedSamples ==
  { Ins(0, 0, 0, 0), Ins(0, 1, 2, 3), Ins(0, 0, 14, 1), Ins(0, 0, 14, 15),
    Ins(0, 1, 14, 0), Ins(0, 0, 15, 14),
    Ins(5, 0, 1, 1), Ins(5, 1, 1, 15), Ins(9, 0, 1, 1), Ins(9, 1, 0, 8),
    Ins(14, 1, 0, 0), Ins(14, 1, 9, 15), Ins(14, 1, 10, 0), Ins(14, 1, 10, 2),
    Ins(15, 1, 0, 0), Ins(15, 1, 0, 8), Ins(15, 1, 5, 6), Ins(15, 1, 7, 5),
    Ins(15, 1, 1, 7) }
  \cup { Ins(8, x, 1, n) : x \in {1, 15}, n \in {8, 9, 10, 11, 12, 13, 15} }

RomsUnrecognized == { Prog(Busy \o <<u>>) : u \in UnrecognizedSamples }

\* clear-screen as a two-byte ROM, and after a sprite has been drawn
RomsClear ==
  { Ins(0, 0, 14, 0) \o InsAddr(1, START_ADDRESS + 2), Prog(Busy \o <<Ins(0, 0, 14, 0)>>),
    Prog(<<InsNN(6, 0, 62), InsNN(6, 1, 30), InsAddr(10, FONT_ADDRESS + 5),
           Ins(13, 0, 1, 5), Ins(0, 0, 14, 0)>>) }

\* return with and without a return address on the stack
RomsReturn ==
  { Prog(<<Ins(0, 0, 14, 14)>>),
    Prog(Busy \o <<Ins(0, 0, 14, 14)>>),
    Prog(Busy \o <<Ins(0, 0, 14, 14), Ins(0, 0, 14, 14)>>),
    Prog(<<InsNN(6, 0, 7), InsAddr(2, START_ADDRESS + 6), Ins(0, 0, 14, 14),
           Ins(0, 0, 14, 14)>>) }

EdgeAddresses == {4093, 4094, 4095}

\* instructions that read or write memory at the index register, with the
\* index register at the end of the memory and beyond it
MemoryOps ==
  { Ins(15, x, 5, 5) : x \in {0, 1, 2, 15} }
  \cup { Ins(15, x, 6, 5) : x \in {0, 1, 2, 15} }
  \cup { Ins(15, 0, 3, 3) }
  \cup { Ins(13, 0, 1, n) : n \in {0, 1, 2, 3, 15} }

RomsEdge ==
  { Prog(<<InsNN(6, 0, 255), InsNN(6, 1, y), InsNN(6, 2, 77), InsAddr(10, a), op>>) :
      a \in EdgeAddresses, y \in {0, 30, 31}, op \in MemoryOps }
  \cup { Prog(<<InsNN(6, 0, 255), InsNN(6, 1, 31), InsAddr(10, 4095),
                Ins(15, k, 1, 14), op>>) : k \in {0, 3}, op \in MemoryOps }
  \cup { Prog(<<InsAddr(1, a)>>) : a \in EdgeAddresses }
  \cup { Prog(<<InsNN(6, 0, v), InsAddr(11, 4095)>>) : v \in {0, 1, 255} }

RomsCore == RomsUnrecognized \cup RomsClear \cup RomsReturn \cup RomsEdge

\* set both timers, read the delay timer back, then idle
RomsTimer ==
  { Prog(<<InsNN(6, 0, v), InsNN(6, 1, w), Ins(15, 0, 1, 5), Ins(15, 1, 1, 8),
           Ins(15, 2, 0, 7)>>) : v \in {0, 1, 3}, w \in {0, 2, 255} }

\* A glyph may already be on the screen at (0, 0); then x and y are set and
\* the same sprite is drawn twice at (register x, register y).
DrawPriors ==
  { <<>>, <<InsAddr(10, FONT_ADDRESS + 40), Ins(13, 2, 3, 5)>> }

DrawRegs == { <<0, 1>>, <<15, 1>>, <<0, 15>>, <<15, 15>>, <<5, 5>> }

RomsDraw ==
  { Prog(prior \o <<InsNN(6, r[1], vx), InsNN(6, r[2], vy), InsAddr(10, FONT_ADDRESS),
                    Ins(13, r[1], r[2], n), Ins(13, r[1], r[2], n)>>) :
      prior \in DrawPriors, r \in DrawRegs, vx \in {0, 2, 61, 125},
      vy \in {0, 2, 30, 63}, n \in {0, 1, 5, 15} }

(***************************************************************************)
(* The program: main constructs the emulator, loads the ROM and then calls *)
(* step in its loop, while SDL events reach the keypad.                    *)
(***************************************************************************)
Gaps == 0..MaxGap

RandomBytes == {0, 165, 255}

\* thread_rng is drawn from only by the random instruction.
RandomDraws(e) ==
  IF ~FetchPanics(e) /\ FetchedInstruction(e).op_code = 12 THEN RandomBytes ELSE {0}

\* The stack is a Vec, unbounded in the source: the model stops at MaxStack.
StackRoom(e) ==
  FetchPanics(e) \/ FetchedInstruction(e).op_code # 2 \/ Len(e.stack) < MaxStack

NoStep == [pc |-> 0, raw |-> <<>>, fired |-> FALSE]

NoFrame ==
  [bell |-> FALSE, buffer_updated |-> FALSE,
   event |-> None, before |-> None, handled |-> FALSE]

InitWith(configs, profiles) ==
  /\ \E config \in configs, overflow_checks \in profiles :
       emu = Initialize(config, overflow_checks)
  /\ twin = emu
  /\ keypad = None
  /\ main_pc = "load_rom"
  /\ last = NoStep
  /\ frame = NoFrame

LoadRom(roms) ==
  /\ main_pc = "load_rom"
  /\ \E rom \in roms : emu' = load_rom(emu, rom)
  /\ main_pc' = "loop"
  /\ UNCHANGED <<keypad, last, frame, twin>>

StepGap(gap) ==
  /\ main_pc = "loop"
  /\ Running(emu)
  /\ StackRoom(emu)
  /\ \E random_number \in RandomDraws(emu) :
       emu' = step(emu, gap, keypad, random_number)
  /\ last' = [pc |-> emu.program_counter,
              raw |-> IF FetchPanics(emu) THEN <<>> ELSE FetchedInstruction(emu).raw,
              fired |-> emu.since_timer_update + gap >= TIMER_PERIOD]
  /\ UNCHANGED <<keypad, main_pc, frame, twin>>

Step(gaps) == \E gap \in gaps : StepGap(gap)

\* load_rom called on an emulator that has run.
LoadRomAgain(roms) ==
  /\ main_pc = "loop"
  /\ Running(emu)
  /\ \E rom \in roms : emu' = load_rom(emu, rom)
  /\ UNCHANGED <<keypad, main_pc, last, frame, twin>>

KeyDown ==
  /\ main_pc = "loop"
  /\ Running(emu)
  /\ \E k \in KeySamples : keypad' = key_down(k)
  /\ UNCHANGED <<emu, main_pc, last, frame, twin>>

KeyUp ==
  /\ main_pc = "loop"
  /\ Running(emu)
  /\ \E k \in KeySamples : keypad' = key_up(k)
  /\ UNCHANGED <<emu, main_pc, last, frame, twin>>

\* Two emulators side by side: both load the same ROM, and each step of
\* the one comes with a step of the other, under the same key latch and the
\* same elapsed time; each draws from thread_rng for itself.
TwinLoadRom(roms) ==
  /\ main_pc = "load_rom"
  /\ \E rom \in roms : emu' = load_rom(emu, rom) /\ twin' = load_rom(twin, rom)
  /\ main_pc' = "loop"
  /\ UNCHANGED <<keypad, last, frame>>

TwinStepGap(gap) ==
  /\ main_pc = "loop"
  /\ Running(emu)
  /\ StackRoom(emu)
  /\ \E random_number \in RandomDraws(emu) :
       emu' = step(emu, gap, keypad, random_number)
  /\ \E random_number \in RandomDraws(twin) :
       twin' = IF Running(twin) THEN step(twin, gap, keypad, random_number) ELSE twin
  /\ last' = [pc |-> emu.program_counter,
              raw |-> IF FetchPanics(emu) THEN <<>> ELSE FetchedInstruction(emu).raw,
              fired |-> emu.since_timer_update + gap >= TIMER_PERIOD]
  /\ UNCHANGED <<keypad, main_pc, frame>>

TwinStep(gaps) == \E gap \in gaps : TwinStepGap(gap)

\* The top of main's loop: the bell is polled and the framebuffer read.
Frame ==
  /\ main_pc = "loop"
  /\ Running(emu)
  /\ frame' = [frame EXCEPT !.bell = get_bell_status(emu),
                            !.buffer_updated = emu.buffer_updated]
  /\ emu' = get_video_buffer(emu)
  /\ UNCHANGED <<keypad, main_pc, last, twin>>

DefaultConfig == [copy_y_on_shift |-> FALSE, offset_jump_vx |-> FALSE]

ShiftConfigs ==
  { [copy_y_on_shift |-> c, offset_jump_vx |-> FALSE] : c \in BOOLEAN }

\* The emulator core on its own: no key is ever pressed.
Init == InitWith({DefaultConfig}, {TRUE})

Next == LoadRom(RomsCore \cup RomsTimer) \/ Step(Gaps)

Spec == Init /\ [][Next]_vars

\* The register arithmetic, under both shift conventions, the steps taken
\* in quick succession (no time passes between them).
InitAlu == InitWith(ShiftConfigs, {TRUE})

NextAlu == LoadRom(RomsAlu) \/ Step({0})

SpecAlu == InitAlu /\ [][NextAlu]_vars

\* The key instructions, with SDL key events arriving at any time.
InitKeys == InitWith({DefaultConfig}, {TRUE})

NextKeys == LoadRom(RomsKeys) \/ Step(Gaps) \/ KeyDown \/ KeyUp

SpecKeys == InitKeys /\ [][NextKeys]_vars

\* main's loop calls step at least once per frame, for as long as it runs.
SpecKeysLive == SpecKeys /\ WF_vars(Step(Gaps))

\* The emulator with main polling the bell and the framebuffer between steps.
RomsFrame == RomsClear \cup RomsTimer \cup RomsReturn

InitFrame == InitWith({DefaultConfig}, {TRUE})

NextFrame == LoadRom(RomsFrame) \/ Step(Gaps) \/ Frame

SpecFrame == InitFrame /\ [][NextFrame]_vars

\* ROM files of every size class: empty, two bytes, a program that writes
\* over the font and the end of the memory, the largest that fits (jumps to
\* START_ADDRESS throughout) and two that do not fit.
StoreProgram ==
  Prog(<<InsNN(6, 0, 170), InsNN(6, 1, 187), InsAddr(10, FONT_ADDRESS), Ins(15, 1, 5, 5),
         InsAddr(10, MEMORY_SIZE - 2), Ins(15, 1, 5, 5)>>)

Jumps(n) == [i \in 1..n |-> IF i % 2 = 1 THEN 18 ELSE 0]

RomsLoad ==
  { <<>>, InsAddr(1, START_ADDRESS), StoreProgram,
    Jumps(MEMORY_SIZE - START_ADDRESS),
    Jumps(MEMORY_SIZE - START_ADDRESS + 1), Jumps(MEMORY_SIZE - START_ADDRESS + 2) }

InitLoad == InitWith({DefaultConfig}, {TRUE})

\* The empty file is loaded over a program only: on its own the emulator
\* would walk the zeroed memory to its end.
NextLoad == LoadRom(RomsLoad \ {<<>>}) \/ Step({0}) \/ LoadRomAgain(RomsLoad)

SpecLoad == InitLoad /\ [][NextLoad]_vars

\* set the flag register, draw a random byte into x, then skip on it
RomsRandom ==
  { Prog(<<InsNN(6, 15, 9), InsNN(12, x, nn), InsNN(3, x, 0), InsNN(7, 1, 1)>>) :
      x \in {0, 15}, nn \in {0, 15, 255} }

RomsTwin == RomsRandom \cup RomsKeys \cup RomsClear

InitTwin == InitWith({DefaultConfig}, {TRUE})

NextTwin == TwinLoadRom(RomsTwin) \/ TwinStep(Gaps) \/ KeyDown \/ KeyUp

SpecTwin == InitTwin /\ [][NextTwin]_vars

\* Subroutines: register 0 is set at START_ADDRESS, then calls nest one,
\* two and three deep and return, a subroutine is called twice in a row,
\* a subroutine returns once too often, and a subroutine calls itself.
CallBodies ==
  { << InsAddr(2, START_ADDRESS + 6), InsAddr(1, START_ADDRESS + 4), Ins(0, 0, 14, 14) >>,
    << InsAddr(2, START_ADDRESS + 6), InsAddr(1, START_ADDRESS + 4),
       InsAddr(2, START_ADDRESS + 10), Ins(0, 0, 14, 14), Ins(0, 0, 14, 14) >>,
    << InsAddr(2, START_ADDRESS + 6), InsAddr(1, START_ADDRESS + 4),
       InsAddr(2, START_ADDRESS + 10), Ins(0, 0, 14, 14),
       InsAddr(2, START_ADDRESS + 14), Ins(0, 0, 14, 14), Ins(0, 0, 14, 14) >>,
    << InsAddr(2, START_ADDRESS + 8), InsAddr(2, START_ADDRESS + 8),
       InsAddr(1, START_ADDRESS + 6), Ins(0, 0, 14, 14) >>,
    << InsAddr(2, START_ADDRESS + 4), Ins(0, 0, 14, 14) >>,
    << InsAddr(2, START_ADDRESS + 2) >> }

RomsCalls == { Prog(<<InsNN(6, 0, v)>> \o body) : v \in ByteSamples, body \in CallBodies }

InitCalls == InitWith({DefaultConfig}, {TRUE})

NextCalls == LoadRom(RomsCalls) \/ Step(Gaps)

SpecCalls == InitCalls /\ [][NextCalls]_vars

\* The sprite drawing, the steps taken in quick succession.
InitDraw == InitWith({DefaultConfig}, {TRUE})

NextDraw == LoadRom(RomsDraw) \/ Step({0})

SpecDraw == InitDraw /\ [][NextDraw]_vars

(***************************************************************************)
(* Properties                                                              *)
(***************************************************************************)
\* The instruction the next step fetches, and its fields.
Fetched == FetchedInstruction(emu)

X == Fetched.parameter[1]

Y == Fetched.parameter[2]

N == Fetched.parameter[3]

NN == Fetched.raw[2]

\* The step that passes gap after the previous one fetches and executes
\* an instruction.
Executes(gap) == StepGap(gap) /\ ~FetchPanics(emu)

IsAwaitKey(i) == i.op_code = 15 /\ i.parameter[2] = 0 /\ i.parameter[3] = 10

IsReturn(i) == i.raw = <<0, 238>>

IsDraw(i) == i.op_code = 13

IsAddImm(i) == i.op_code = 7

\* C1: a step that executes await-key with no key latched leaves the program
\* counter, the registers, the index register, the memory, the stack and the
\* framebuffer as they were; with key k latched it leaves register X = k and
\* the program counter advanced by 2.
C1_AwaitKey ==
  [][IsAwaitKey(Fetched) => \A gap \in Gaps :
       Executes(gap) =>
          IF keypad = None
          THEN /\ emu'.program_counter = emu.program_counter
               /\ emu'.registers = emu.registers
               /\ emu'.index_pointer = emu.index_pointer
               /\ emu'.memory = emu.memory
               /\ emu'.stack = emu.stack
               /\ emu'.video_buffer = emu.video_buffer
          ELSE /\ emu'.registers[X] = keypad[1]
               /\ emu'.program_counter = emu.program_counter + 2]_vars

\* An await-key on register 7 has just waited: no key was latched, and the
\* program counter is where it was.
C1_Witness ==
  /\ last.raw = <<247, 10>>
  /\ emu.key = None
  /\ emu.program_counter = last.pc
  /\ emu.registers[7] = 200
  /\ emu.registers[15] = 9

\* C2: a return executed with the call stack empty aborts the emulation, and
\* an aborted emulation takes no further step.
C2_ReturnOnEmptyStack ==
  [][/\ (IsReturn(Fetched) /\ emu.stack = <<>>) => \A gap \in Gaps :
          Executes(gap) => ~Running(emu')
     /\ ~Running(emu) => emu' = emu]_vars

\* A return has popped the one return address, and the next return has
\* found the stack empty.
C2_Witness ==
  /\ last.raw = <<0, 238>>
  /\ emu.panic = "Tried to pop an empty stack"
  /\ emu.stack = <<>>
  /\ emu.registers[0] = 7

\* The state two steps on, no time passing.
AfterOne(e) == step(e, 0, keypad, 0)

AfterTwo(e) == AfterOne(AfterOne(e))

\* The next two instructions are the same draw, and both execute.
DrawsTwice ==
  /\ main_pc = "loop"
  /\ Running(emu)
  /\ ~FetchPanics(emu)
  /\ IsDraw(Fetched)
  /\ Running(AfterOne(emu))
  /\ ~FetchPanics(AfterOne(emu))
  /\ FetchedInstruction(AfterOne(emu)) = Fetched
  /\ AfterOne(emu).index_pointer = emu.index_pointer
  /\ Running(AfterTwo(emu))

C4_AddImm ==
  [][IsAddImm(Fetched) => \A gap \in Gaps :
       Executes(gap) =>
          emu'.registers = [emu.registers EXCEPT ![X] = (@ + NN) % 256]]_vars

\* 255 has been added to register 7 = 128: the sum has wrapped to 127 and the
\* flag register still holds its 9.
C4_Witness ==
  /\ last.raw = <<119, 255>>
  /\ emu.registers[7] = 127
  /\ emu.registers[FLAG] = 9
  /\ MemRead(emu.memory, last.pc - 1) = 128

IsAlu(i, selector) == i.op_code = 8 /\ i.parameter[3] = selector

\* The wrapped difference a - b of two bytes, and whether it did not borrow.
Difference(a, b) == (a - b + 256) % 256

NoBorrow(a, b) == IF a >= b THEN 1 ELSE 0

\* C5 as claimed: after sub (sub-reverse) the flag register is 1 iff
\* register X >= register Y (register Y >= register X) held before, and the
\* destination register X holds the difference modulo 256.
C5_SubFlagAndDifference ==
  [][LET rx == emu.registers[X]
         ry == emu.registers[Y]
     IN /\ IsAlu(Fetched, 5) => \A gap \in Gaps :
             Executes(gap) =>
               /\ emu'.registers[FLAG] = NoBorrow(rx, ry)
               /\ emu'.registers[X] = Difference(rx, ry)
        /\ IsAlu(Fetched, 7) => \A gap \in Gaps :
             Executes(gap) =>
               /\ emu'.registers[FLAG] = NoBorrow(ry, rx)
               /\ emu'.registers[X] = Difference(ry, rx)]_vars

\* C5, amended: the flag is as claimed for all X and Y; register X holds the
\* difference unless X is the flag register, which holds the flag; no other
\* register changes.
C5_SubFlagLast ==
  [][LET rx == emu.registers[X]
         ry == emu.registers[Y]
     IN /\ IsAlu(Fetched, 5) => \A gap \in Gaps :
             Executes(gap) =>
               emu'.registers = [[emu.registers EXCEPT ![X] = Difference(rx, ry)]
                                   EXCEPT ![FLAG] = NoBorrow(rx, ry)]
        /\ IsAlu(Fetched, 7) => \A gap \in Gaps :
             Executes(gap) =>
               emu'.registers = [[emu.registers EXCEPT ![X] = Difference(ry, rx)]
                                   EXCEPT ![FLAG] = NoBorrow(ry, rx)]]_vars

\* Register 0 = 0 minus register 7 = 255 has borrowed: register 0 holds 1 and
\* the flag register 0.
C5_Witness ==
  /\ last.raw = <<128, 117>>
  /\ emu.registers[0] = 1
  /\ emu.registers[7] = 255
  /\ emu.registers[FLAG] = 0

\* C6 as claimed: with copy-on-shift disabled, shift-right leaves register
\* X = old X >> 1 and the flag register = old X & 1, and register Y is
\* unchanged.
C6_ShiftRight ==
  [][(IsAlu(Fetched, 6) /\ ~emu.config.copy_y_on_shift) => \A gap \in Gaps :
       Executes(gap) =>
         /\ emu'.registers[X] = emu.registers[X] \div 2
         /\ emu'.registers[FLAG] = emu.registers[X] % 2
         /\ emu'.registers[Y] = emu.registers[Y]]_vars

\* C6, amended: register X holds old X >> 1 unless X is the flag register,
\* which holds old X & 1; every register other than X and the flag register
\* (register Y too, unless it is one of them) is unchanged and not read.
C6_ShiftRightFlagLast ==
  [][(IsAlu(Fetched, 6) /\ ~emu.config.copy_y_on_shift) => \A gap \in Gaps :
       Executes(gap) =>
         emu'.registers = [[emu.registers EXCEPT ![X] = emu.registers[X] \div 2]
                             EXCEPT ![FLAG] = emu.registers[X] % 2]]_vars

\* Register 0 = 255 has been shifted right with copy-on-shift disabled:
\* it holds 127, the flag register 1, and register 7 its own 0.
C6_Witness ==
  /\ last.raw = <<128, 118>>
  /\ ~emu.config.copy_y_on_shift
  /\ emu.registers[0] = 127
  /\ emu.registers[7] = 0
  /\ emu.registers[FLAG] = 1

Pixels == 0..(SCREEN_WIDTH * SCREEN_HEIGHT - 1)

IsClearScreen(i) == i.raw = <<0, 224>>

\* C7: a step that executes clear-screen leaves every pixel 0, the
\* framebuffer marked updated and the program counter advanced by 2;
\* registers, index register, stack and memory are unchanged.
C7_ClearScreen ==
  [][IsClearScreen(Fetched) => \A gap \in Gaps :
       Executes(gap) =>
         /\ \A p \in Pixels : PixelRead(emu'.video_buffer, p) = 0
         /\ emu'.buffer_updated
         /\ emu'.program_counter = emu.program_counter + 2
         /\ emu'.registers = emu.registers
         /\ emu'.index_pointer = emu.index_pointer
         /\ emu'.stack = emu.stack
         /\ emu'.memory = emu.memory]_vars

\* The screen has been cleared at START_ADDRESS + 8 after a glyph had been
\* drawn at (62, 30).
C7_Witness ==
  /\ last.raw = <<0, 224>>
  /\ last.pc = START_ADDRESS + 8
  /\ emu.program_counter = START_ADDRESS + 10
  /\ emu.registers[0] = 62
  /\ emu.index_pointer = FONT_ADDRESS + 5
  /\ emu.video_buffer = EmptyMap
  /\ emu.buffer_updated

\* A timer after the timer update of a step, elapsed after the last update.
TimerAfter(timer, elapsed) ==
  IF elapsed >= TIMER_PERIOD /\ timer > 0 THEN timer - 1 ELSE timer

SetsDelayTimer(e) ==
  /\ ~FetchPanics(e)
  /\ FetchedInstruction(e).op_code = 15
  /\ FetchedInstruction(e).raw[2] = 21

SetsSoundTimer(e) ==
  /\ ~FetchPanics(e)
  /\ FetchedInstruction(e).op_code = 15
  /\ FetchedInstruction(e).raw[2] = 24

\* C8: a step decrements each nonzero timer by exactly 1 if at least 1/60 s
\* has elapsed since the last timer update, however long the gap, and by 0
\* otherwise; a timer at 0 stays 0 (a step that executes set-delay-timer or
\* set-sound-timer leaves that timer at the register's value instead).
C8_TimerUpdate ==
  [][\A gap \in Gaps :
       \/ /\ SetsDelayTimer(emu) \/
               emu'.delay_timer = TimerAfter(emu.delay_timer, emu.since_timer_update + gap)
          /\ SetsSoundTimer(emu) \/
               emu'.sound_timer = TimerAfter(emu.sound_timer, emu.since_timer_update + gap)
          /\ emu'.delay_timer \in 0..255
          /\ emu'.sound_timer \in 0..255
       \/ ~StepGap(gap)]_vars

\* The 60Hz gate has fired in the step that read the delay timer: the delay
\* timer, set to 3, is at 2 and the sound timer, set to 0, still at 0.
C8_Witness ==
  /\ last.raw = <<242, 7>>
  /\ last.fired
  /\ emu.registers[0] = 3
  /\ emu.registers[1] = 0
  /\ emu.delay_timer = 2
  /\ emu.registers[2] = 2
  /\ emu.sound_timer = 0

\* The instructions of the instruction set.
Recognized(i) ==
  LET p == i.parameter
  IN \/ i.raw = <<0, 224>>
     \/ i.raw = <<0, 238>>
     \/ i.op_code \in {1, 2, 3, 4, 6, 7, 10, 11, 12, 13}
     \/ i.op_code \in {5, 9} /\ p[3] = 0
     \/ i.op_code = 8 /\ p[3] \in {0, 1, 2, 3, 4, 5, 6, 7, 14}
     \/ i.op_code = 14 /\ i.raw[2] \in {158, 161}
     \/ i.op_code = 15 /\ i.raw[2] \in {7, 10, 21, 24, 30, 41, 51, 85, 101}

\* C9: a step that fetches an instruction outside the instruction set only
\* advances the program counter by 2 (and ticks the timers): registers,
\* index register, stack, memory and framebuffer are unchanged and the
\* emulator runs on.
C9_Unrecognized ==
  [][(~FetchPanics(emu) /\ ~Recognized(Fetched)) => \A gap \in Gaps :
       StepGap(gap) =>
         /\ Running(emu')
         /\ emu'.program_counter = emu.program_counter + 2
         /\ emu'.registers = emu.registers
         /\ emu'.index_pointer = emu.index_pointer
         /\ emu'.stack = emu.stack
         /\ emu'.memory = emu.memory
         /\ emu'.video_buffer = emu.video_buffer
         /\ emu'.buffer_updated = emu.buffer_updated
         /\ emu'.delay_timer = TimerAfter(emu.delay_timer, emu.since_timer_update + gap)
         /\ emu'.sound_timer = TimerAfter(emu.sound_timer, emu.since_timer_update + gap)]_vars

\* The ALU instruction 8F1F (selector 15) has been stepped over, with
\* register 1 at 3, a glyph on the screen and a return address on the stack.
C9_Witness ==
  /\ last.raw = <<143, 31>>
  /\ last.pc = START_ADDRESS + 12
  /\ emu.program_counter = START_ADDRESS + 14
  /\ Running(emu)
  /\ emu.registers[1] = 3
  /\ emu.registers[FLAG] = 0
  /\ emu.stack = <<START_ADDRESS + 12>>
  /\ emu.video_buffer # EmptyMap

\* The next step would read or write the memory at an address outside it.
WouldAccessOutside(e) ==
  LET i == FetchedInstruction(e)
      x == i.parameter[1]
      low == i.raw[2]
  IN \/ e.program_counter >= MEMORY_SIZE - 1
     \/ i.op_code = 15 /\ low \in {85, 101} /\ e.index_pointer + x >= MEMORY_SIZE
     \/ i.op_code = 15 /\ low = 51 /\ e.index_pointer + 2 >= MEMORY_SIZE
     \/ /\ i.op_code = 13
        /\ \E row \in 0..(i.parameter[3] - 1) :
             /\ (e.registers[i.parameter[2]] % SCREEN_HEIGHT) + row < SCREEN_HEIGHT
             /\ e.index_pointer + row >= MEMORY_SIZE

\* C10: a step that would access the memory outside [0, 4096) aborts the
\* emulation.
C10_OutOfRangeIsFatal ==
  [][WouldAccessOutside(emu) => \A gap \in Gaps :
       StepGap(gap) => ~Running(emu')]_vars

\* Storing registers 0..1 at the index register 4095 has written
\* memory[4095] and panicked at memory[4096].
C10_Witness ==
  /\ last.raw = <<241, 85>>
  /\ emu.index_pointer = 4095
  /\ emu.panic = "index out of bounds"
  /\ MemRead(emu.memory, 4095) = 255
  /\ MemRead(emu.memory, 0) = 0

\* The step at hand hands the screen out: it executes clear-screen or draw
\* to its end.
UpdatesScreen ==
  /\ ~FetchPanics(emu)
  /\ IsClearScreen(Fetched) \/ IsDraw(Fetched)
  /\ Running(emu')

\* C11: the framebuffer flag is one-shot: a step sets it iff it executes
\* clear-screen or draw and no other step changes it; a read returns the
\* flag and clears it, so that a second read with no clear-screen or draw in
\* between returns false.
C11_DirtyFlagOneShot ==
  [][/\ Frame => (frame'.buffer_updated = emu.buffer_updated /\ ~emu'.buffer_updated)
     /\ \/ emu'.buffer_updated = (emu.buffer_updated \/ UpdatesScreen)
        \/ ~(\E gap \in Gaps : StepGap(gap))]_vars

\* A glyph is on the screen and main has read the framebuffer twice since
\* it was drawn: the second read has returned false.
C11_Witness ==
  /\ last.raw = <<208, 5>>
  /\ emu.video_buffer # EmptyMap
  /\ ~emu.buffer_updated
  /\ ~frame.buffer_updated

\* C12: the bell signal is true iff the sound timer is not 0: after a step
\* that executes set-sound-timer the signal is true iff the register is not
\* 0, after any other step iff the timer as ticked by the step is not 0;
\* main's poll returns it.
C12_Bell ==
  [][/\ Frame => frame'.bell = (emu.sound_timer # 0)
     /\ \A gap \in Gaps :
          \/ get_bell_status(emu') =
               IF SetsSoundTimer(emu)
               THEN emu.registers[X] # 0
               ELSE TimerAfter(emu.sound_timer, emu.since_timer_update + gap) # 0
          \/ ~StepGap(gap)]_vars

\* The bell has been polled on, and the sound timer, set to 2, has counted
\* down to 0 since.
C12_Witness ==
  /\ frame.bell
  /\ ~get_bell_status(emu)
  /\ emu.registers[1] = 2
  /\ last.fired

\* The transition at hand is load_rom reading rom.
Loads(rom) == LoadRom({rom}) \/ LoadRomAgain({rom})

Fits(rom) == Len(rom) <= MEMORY_SIZE - START_ADDRESS

\* C13: a load of a ROM of n <= 4096 - 0x200 bytes leaves memory[0x200 + i]
\* = rom[i] for all i < n, the program counter at 0x200 and every byte
\* outside [0x200, 0x200 + n) as it was.
C13_LoadRom ==
  [][\A rom \in RomsLoad :
       (last' = last /\ Fits(rom) /\ Loads(rom)) =>
         /\ Running(emu')
         /\ emu'.program_counter = START_ADDRESS
         /\ \A a \in 0..(MEMORY_SIZE - 1) :
              MemRead(emu'.memory, a) =
                IF a \in START_ADDRESS..(START_ADDRESS + Len(rom) - 1)
                THEN rom[a - START_ADDRESS + 1]
                ELSE MemRead(emu.memory, a)]_vars

\* The two-byte ROM has been loaded over the program that had run to
\* START_ADDRESS + 12: the font and the end of the memory are as the program
\* left them, and so is the program's second instruction.
C13_Witness ==
  /\ Running(emu)
  /\ emu.program_counter = START_ADDRESS
  /\ last.pc = START_ADDRESS + 12
  /\ MemRead(emu.memory, FONT_ADDRESS) = 170
  /\ MemRead(emu.memory, MEMORY_SIZE - 1) = 187
  /\ MemRead(emu.memory, START_ADDRESS) = 18
  /\ MemRead(emu.memory, START_ADDRESS + 1) = 0
  /\ MemRead(emu.memory, START_ADDRESS + 2) = 97

\* C14: a load of a ROM of more than 4096 - 0x200 bytes fails with memory
\* and program counter as they were.
C14_LoadRomTooLarge ==
  [][\A rom \in RomsLoad :
       (last' = last /\ ~Fits(rom) /\ Loads(rom)) =>
         /\ ~Running(emu')
         /\ emu'.memory = emu.memory
         /\ emu'.program_counter = emu.program_counter]_vars

\* A ROM that does not fit has been refused after the program had run to
\* START_ADDRESS + 12: the memory is as the program left it.
C14_Witness ==
  /\ emu.panic = "range end index out of range"
  /\ last.pc = START_ADDRESS + 12
  /\ emu.program_counter = START_ADDRESS + 12
  /\ MemRead(emu.memory, START_ADDRESS) = 96
  /\ MemRead(emu.memory, FONT_ADDRESS) = 170
  /\ MemRead(emu.memory, MEMORY_SIZE - 1) = 187

IsRandomAnd(i) == i.op_code = 12

AtAwaitKey ==
  /\ main_pc = "loop"
  /\ Running(emu)
  /\ ~FetchPanics(emu)
  /\ IsAwaitKey(Fetched)

\* C16: a step at await-key returns with the program counter where it was
\* when no key is latched and past the instruction when one is; and the
\* emulator does not stay at await-key for ever with a key latched.
C16_AwaitKeyProgress ==
  /\ [][AtAwaitKey => \A gap \in Gaps :
          StepGap(gap) =>
            /\ Running(emu')
            /\ emu'.program_counter =
                 IF keypad = None THEN emu.program_counter ELSE emu.program_counter + 2]_vars
  /\ (AtAwaitKey /\ keypad # None) ~> (~AtAwaitKey \/ keypad = None)

\* Await-key on register 7 has been left with key 15, still latched.
C16_Witness ==
  /\ last.raw = <<247, 10>>
  /\ emu.program_counter = last.pc + 2
  /\ ~AtAwaitKey
  /\ keypad = Some(15)
  /\ emu.registers[7] = 15

IsCall(i) == i.op_code = 2

\* The address NNN of a jump or call instruction.
NNN == FromBeBytes(X, Fetched.raw[2])

\* C17: call at program counter p pushes p + 2 and jumps to the address,
\* return pops the latest pushed address into the program counter, and no
\* other instruction touches the stack: the stack is LIFO, its depth the
\* number of calls less the number of returns, and the return that matches
\* a call leaves the stack as it was before the call, at p + 2.
C17_CallReturn ==
  [][(IsCall(Fetched) \/ IsReturn(Fetched) \/ emu'.stack # emu.stack) =>
       \A gap \in Gaps :
         StepGap(gap) =>
           IF FetchPanics(emu) THEN emu'.stack = emu.stack
           ELSE IF IsCall(Fetched)
           THEN /\ emu'.stack = Append(emu.stack, emu.program_counter + 2)
                /\ emu'.program_counter = NNN
           ELSE IF IsReturn(Fetched) /\ emu.stack # <<>>
           THEN /\ emu'.program_counter = emu.stack[Len(emu.stack)]
                /\ Append(emu'.stack, emu'.program_counter) = emu.stack
           ELSE emu'.stack = emu.stack]_vars

\* The second of two nested calls, made at START_ADDRESS + 6, has returned
\* to START_ADDRESS + 8: the stack is what the first call, made at
\* START_ADDRESS + 2, left.
C17_Witness ==
  /\ last.raw = <<0, 238>>
  /\ last.pc = START_ADDRESS + 10
  /\ emu.program_counter = START_ADDRESS + 8
  /\ emu.stack = <<START_ADDRESS + 4>>
  /\ emu.registers[0] = 255

\* The screen before and after the step at hand, by column and row.
OldPixel(column, row) == PixelRead(emu.video_buffer, (SCREEN_WIDTH * row) + column)

NewPixel(column, row) == PixelRead(emu'.video_buffer, (SCREEN_WIDTH * row) + column)

Columns == 0..(SCREEN_WIDTH - 1)

Rows == 0..(SCREEN_HEIGHT - 1)

\* Where the draw at hand starts, and bit i (0 the leftmost) of its row r.
StartColumn == emu.registers[X] % SCREEN_WIDTH

StartRow == emu.registers[Y] % SCREEN_HEIGHT

SpriteBit(r, i) == Bit(MemRead(emu.memory, emu.index_pointer + r), 7 - i)

\* The step at hand executes a draw to its end.
Draws(gap) == Executes(gap) /\ Running(emu')

C19_DrawNoVerticalWrap ==
  [][IsDraw(Fetched) => \A gap \in Gaps :
       Draws(gap) =>
         \A row \in Rows :
           (row < StartRow \/ row >= StartRow + N) =>
             \A column \in Columns : NewPixel(column, row) = OldPixel(column, row)]_vars

\* Fifteen sprite rows have been drawn from row 30 on an empty screen: rows
\* 30 and 31 are the only ones with a pixel set.
C19_Witness ==
  /\ last.raw = <<208, 31>>
  /\ last.pc = START_ADDRESS + 6
  /\ emu.registers[0] = 0
  /\ emu.registers[1] = 30
  /\ { at \div SCREEN_WIDTH : at \in DOMAIN emu.video_buffer } = {30, 31}

\* C20 as claimed: a draw that starts at a column x0 > 56 changes no pixel
\* in a column lower than x0.
C20_DrawNoHorizontalWrap ==
  [][IsDraw(Fetched) => \A gap \in Gaps :
       Draws(gap) =>
         (StartColumn > 56 =>
            \A column \in 0..(StartColumn - 1), row \in Rows :
              NewPixel(column, row) = OldPixel(column, row))]_vars

\* C21 as claimed: with copy-on-shift enabled, 8XY6 leaves the flag
\* register at old_Y & 1 and register X at old_Y >> 1, and 8XYE leaves the
\* flag register at old_Y >> 7 and register X at (old_Y << 1) mod 256.
C21_CopyShift ==
  [][emu.config.copy_y_on_shift => \A gap \in Gaps :
       Executes(gap) =>
         /\ IsAlu(Fetched, 6) =>
              /\ emu'.registers[FLAG] = emu.registers[Y] % 2
              /\ emu'.registers[X] = emu.registers[Y] \div 2
         /\ IsAlu(Fetched, 14) =>
              /\ emu'.registers[FLAG] = emu.registers[Y] \div 128
              /\ emu'.registers[X] = (emu.registers[Y] * 2) % 256]_vars

\* C21: with copy-on-shift enabled, a shift writes the shifted old value of
\* register Y to register X and then the bit shifted out to the flag
\* register, which is the write that stays when X is 15; no other register
\* changes.
C21_CopyShiftFlagLast ==
  [][emu.config.copy_y_on_shift => \A gap \in Gaps :
       Executes(gap) =>
         /\ IsAlu(Fetched, 6) =>
              emu'.registers =
                [[emu.registers EXCEPT ![X] = emu.registers[Y] \div 2]
                   EXCEPT ![FLAG] = emu.registers[Y] % 2]
         /\ IsAlu(Fetched, 14) =>
              emu'.registers =
                [[emu.registers EXCEPT ![X] = (emu.registers[Y] * 2) % 256]
                   EXCEPT ![FLAG] = emu.registers[Y] \div 128]]_vars

\* 8F7E has run with copy-on-shift enabled and 255 in register 7: the
\* shifted value 254 went to register 15 first and the bit shifted out
\* replaced it.
C21_Witness ==
  /\ emu.config.copy_y_on_shift
  /\ last.raw = <<143, 126>>
  /\ emu.registers[7] = 255
  /\ emu.registers[FLAG] = 1

\* Jump-with-offset under both conventions.  Register 0 and the register
\* named by the high nibble of the address are set, then BNNN is at
\* START_ADDRESS + 4: a low target lands on BNNN itself or on one of the
\* two closing jumps, a high target at or past the last bytes of memory.
JumpConfigs ==
  { [copy_y_on_shift |-> FALSE, offset_jump_vx |-> o] : o \in BOOLEAN }

RomsJump ==
  { Prog(<<InsNN(6, 0, v), InsNN(6, 2, w), InsAddr(11, START_ADDRESS + 4)>>) :
      v \in {0, 2, 4}, w \in {0, 2, 4} }
  \cup
  { Prog(<<InsNN(6, 0, v), InsNN(6, 15, w), InsAddr(11, a)>>) :
      v \in {0, 1, 255}, w \in {0, 1, 255}, a \in {MEMORY_SIZE - 2, MEMORY_SIZE - 1} }

InitJump == InitWith(JumpConfigs, {TRUE})

NextJump == LoadRom(RomsJump) \/ Step({0})

SpecJump == InitJump /\ [][NextJump]_vars

IsJumpOffset(i) == i.op_code = 11

\* C22: BNNN sets the program counter to NNN + register 0 when
\* offset-jump-vx is clear and to NNN + the register named by the high
\* nibble of NNN when it is set; the sum is not reduced modulo 4096 and no
\* register changes.
C22_JumpOffset ==
  [][IsJumpOffset(Fetched) => \A gap \in Gaps :
       Executes(gap) =>
         /\ emu'.program_counter =
              NNN + (IF emu.config.offset_jump_vx
                     THEN emu.registers[NNN \div 256] ELSE emu.registers[0])
         /\ emu'.registers = emu.registers]_vars

\* BFFF has run with offset-jump-vx set, 1 in register 0 and 255 in
\* register 15: the program counter is 4095 + 255.
C22_Witness ==
  /\ emu.config.offset_jump_vx
  /\ last.raw = <<191, 255>>
  /\ emu.registers[0] = 1
  /\ emu.registers[FLAG] = 255
  /\ emu.program_counter = 4350

IsSkipIfKey(i) == i.op_code = 14 /\ i.parameter[2] = 9 /\ i.parameter[3] = 14

IsSkipIfNotKey(i) == i.op_code = 14 /\ i.parameter[2] = 10 /\ i.parameter[3] = 1

\* The key of the latch is the one register x names.
KeyIs(x) == keypad # None /\ keypad[1] = emu.registers[x]

\* C23: EX9E at p leaves the program counter at p + 4 iff a key is latched
\* and equals register X, and at p + 2 otherwise; EXA1 leaves it at p + 4
\* iff no key is latched or the latched key differs from register X; so in
\* every state exactly one of the two would skip, whatever X is.
C23_KeySkips ==
  [][(IsSkipIfKey(Fetched) \/ IsSkipIfNotKey(Fetched)) => \A gap \in Gaps :
       Executes(gap) =>
         /\ IsSkipIfKey(Fetched) =>
              emu'.program_counter =
                emu.program_counter + (IF KeyIs(X) THEN 4 ELSE 2)
         /\ IsSkipIfNotKey(Fetched) =>
              emu'.program_counter =
                emu.program_counter + (IF ~KeyIs(X) THEN 4 ELSE 2)
         /\ \A x \in AllRegs :
              LET e == [emu EXCEPT !.key = keypad]
              IN (SkipIfKey(e, x).program_counter = e.program_counter + 2)
                 # (SkipIfNotKey(e, x).program_counter = e.program_counter + 2)]_vars

\* E7A1 has run with no key latched and 15 in register 7: the instruction
\* after it has been skipped.
C23_Witness ==
  /\ last.raw = <<231, 161>>
  /\ emu.key = None
  /\ emu.registers[7] = 15
  /\ emu.program_counter = last.pc + 4

\* Add-to-index, in a debug and in a release build.  The index register
\* starts at 0 or at 0xFFF and register x is added to it once; or 255 is
\* added to it again and again, by a loop that never leaves FX1E.
RomsIndex ==
  { Prog(<<InsNN(6, x, v), InsAddr(10, a), Ins(15, x, 1, 14), Ins(15, x, 1, 14)>>) :
      x \in {0, FLAG}, v \in {0, 1, 255}, a \in {0, ADDRESS_LIMIT - 1} }
  \cup
  { InsNN(6, 0, 255) \o InsAddr(10, ADDRESS_LIMIT - 1) \o Ins(15, 0, 1, 14)
      \o InsAddr(1, START_ADDRESS + 4) }

InitIndex == InitWith({DefaultConfig}, BOOLEAN)

NextIndex == LoadRom(RomsIndex) \/ Step({0})

SpecIndex == InitIndex /\ [][NextIndex]_vars

IsAddToIndex(i) == i.op_code = 15 /\ i.parameter[2] = 1 /\ i.parameter[3] = 14

\* C24 as claimed: FX1E sets the index register to its old value plus
\* register X and the flag register to 1 if the new value is >= 0x1000,
\* else to 0; the index register is not masked, so once it is >= 0x1000
\* every later add-to-index sets the flag register to 1.
C24_AddToIndex ==
  [][IsAddToIndex(Fetched) => \A gap \in Gaps :
       Executes(gap) =>
         /\ emu'.index_pointer = emu.index_pointer + emu.registers[X]
         /\ emu'.registers[FLAG] =
              IF emu'.index_pointer >= ADDRESS_LIMIT THEN 1 ELSE 0
         /\ emu.index_pointer >= ADDRESS_LIMIT => emu'.registers[FLAG] = 1]_vars

\* Store and load.  Registers 0, 1, 2 and 15 are set, registers 0..x are
\* stored at the index register (over the font, in free memory, over the
\* last 16 bytes of the memory, or past its end), the four registers are
\* overwritten and registers 0..x are loaded back.
RomsStore ==
  { Prog(<<InsNN(6, 0, 170), InsNN(6, 1, 17), InsNN(6, 2, 34), InsNN(6, 15, 51),
           InsAddr(10, a), Ins(15, x, 5, 5),
           InsNN(6, 0, 1), InsNN(6, 1, 2), InsNN(6, 2, 3), InsNN(6, 15, 4),
           Ins(15, x, 6, 5)>>) :
      x \in {0, 1, 2, 15},
      a \in {FONT_ADDRESS, 768, MEMORY_SIZE - 16, MEMORY_SIZE - 6} }

InitStore == InitWith({DefaultConfig}, {TRUE})

NextStore == LoadRom(RomsStore) \/ Step({0})

SpecStore == InitStore /\ [][NextStore]_vars

IsStoreRegisters(i) == i.op_code = 15 /\ i.raw[2] = 85

IsLoadRegisters(i) == i.op_code = 15 /\ i.raw[2] = 101

\* The registers with every value replaced by another one.
Overwritten(registers) == [r \in AllRegs |-> 255 - registers[r]]

\* C25: with [I, I + X] inside the memory, FX55 copies registers 0..X to
\* memory[I..I + X] and FX65 copies memory[I..I + X] to registers 0..X, X
\* included; neither changes the index register, store changes no register
\* and no memory outside [I, I + X], load changes no memory and no register
\* above X; and a load after a store with the same X and I restores
\* registers 0..X, whatever the registers held in between.
C25_StoreLoad ==
  [][(IsStoreRegisters(Fetched) \/ IsLoadRegisters(Fetched)) => \A gap \in Gaps :
       (Executes(gap) /\ emu.index_pointer + X < MEMORY_SIZE) =>
         LET I == emu.index_pointer
         IN /\ emu'.index_pointer = I
            /\ IsStoreRegisters(Fetched) =>
                 /\ \A a \in 0..(MEMORY_SIZE - 1) :
                      MemRead(emu'.memory, a) =
                        IF a >= I /\ a <= I + X
                        THEN emu.registers[a - I] ELSE MemRead(emu.memory, a)
                 /\ emu'.registers = emu.registers
                 /\ LET between == [emu' EXCEPT !.registers = Overwritten(emu.registers)]
                        loaded == LoadRegisters(between, X)
                    IN loaded.registers =
                         [r \in AllRegs |-> IF r <= X THEN emu.registers[r]
                                            ELSE between.registers[r]]
            /\ IsLoadRegisters(Fetched) =>
                 /\ emu'.registers =
                      [r \in AllRegs |-> IF r <= X THEN MemRead(emu.memory, I + r)
                                         ELSE emu.registers[r]]
                 /\ emu'.memory = emu.memory]_vars

\* Registers 0..2 were stored at 4080, all four registers were overwritten
\* and F265 has loaded registers 0..2 back: they hold 170, 17 and 34 again,
\* and register 15 the 4 it was overwritten with.
C25_Witness ==
  /\ last.raw = <<242, 101>>
  /\ emu.index_pointer = MEMORY_SIZE - 16
  /\ emu.registers[0] = 170
  /\ emu.registers[1] = 17
  /\ emu.registers[2] = 34
  /\ emu.registers[FLAG] = 4

\* Draws and a clear-screen in one program: a glyph is drawn, drawn again
\* at the same or at an overlapping position, the screen is cleared and the
\* glyph is drawn once more.
RomsScreen ==
  { Prog(<<InsAddr(10, FONT_ADDRESS + glyph), InsNN(6, 1, vy), InsNN(6, 0, vx),
           Ins(13, 0, 1, 5), InsNN(6, 0, wx), Ins(13, 0, 1, 5),
           Ins(0, 0, 14, 0), Ins(13, 0, 1, 5)>>) :
      glyph \in {0, 40}, vy \in {0, 29}, vx \in {0, 61}, wx \in {0, 2, 61} }

InitScreen == InitWith({DefaultConfig}, {TRUE})

NextScreen == LoadRom(RomsScreen) \/ Step({0})

SpecScreen == InitScreen /\ [][NextScreen]_vars

\* C26: in every reachable state each of the 2048 cells of the framebuffer
\* holds 0 or 1.
C26_PixelsAreBits ==
  /\ DOMAIN emu.video_buffer \subseteq 0..(SCREEN_WIDTH * SCREEN_HEIGHT - 1)
  /\ \A at \in 0..(SCREEN_WIDTH * SCREEN_HEIGHT - 1) :
       PixelRead(emu.video_buffer, at) \in {0, 1}

\* The glyph has been drawn at column 0 and again at column 2: pixels of
\* the first drawing were met and erased (the flag register is 1), others
\* are left set or were newly set.
C26_Witness ==
  /\ last.raw = <<208, 21>>
  /\ last.pc = START_ADDRESS + 10
  /\ emu.registers[0] = 2
  /\ emu.registers[FLAG] = 1
  /\ PixelRead(emu.video_buffer, 0) = 1
  /\ PixelRead(emu.video_buffer, 2) = 0
  /\ PixelRead(emu.video_buffer, 4) = 1

\* The flag an arithmetic instruction computes from the operands rx and ry
\* it reads: carry, no borrow, or the bit shifted out of the operand.
FlagOf(selector, rx, ry, copy) ==
  LET operand == IF copy THEN ry ELSE rx
  IN CASE selector = 4 -> IF rx + ry > 255 THEN 1 ELSE 0
       [] selector = 5 -> NoBorrow(rx, ry)
       [] selector = 7 -> NoBorrow(ry, rx)
       [] selector = 6 -> operand % 2
       [] selector = 14 -> operand \div 128

\* C27: when the destination X of add, sub, sub-reverse, shift-right or
\* shift-left is register 15, the flag is written last: register 15 ends as
\* the carry, no-borrow or shifted-out flag (0 or 1) computed from the
\* operands as they were before the instruction, and no other register
\* changes.
C27_FlagWrittenLast ==
  [][(Fetched.op_code = 8 /\ N \in {4, 5, 6, 7, 14} /\ X = FLAG) =>
       \A gap \in Gaps :
         Executes(gap) =>
           /\ emu'.registers =
                [emu.registers EXCEPT
                   ![FLAG] = FlagOf(N, emu.registers[X], emu.registers[Y],
                                    emu.config.copy_y_on_shift)]
           /\ emu'.registers[FLAG] \in {0, 1}]_vars

\* 8F74 has run with 255 in register 7 and a value other than 0 in register
\* 15: the sum has carried and register 15 holds the carry flag.
C27_Witness ==
  /\ last.raw = <<143, 116>>
  /\ emu.registers[7] = 255
  /\ emu.registers[FLAG] = 1

\* The order of a step.  Both timers are set, a key is awaited into
\* register 3 and the delay timer is read into register 2, while time
\* passes and keys are pressed and released between the steps.
RomsOrder ==
  { Prog(<<InsNN(6, 0, v), InsNN(6, 1, w), Ins(15, 0, 1, 5), Ins(15, 1, 1, 8),
           Ins(15, 3, 0, 10), Ins(15, 2, 0, 7)>>) : v \in {0, 1, 3}, w \in {0, 2} }

InitOrder == InitWith({DefaultConfig}, {TRUE})

NextOrder == LoadRom(RomsOrder) \/ Step(Gaps) \/ KeyDown \/ KeyUp

SpecOrder == InitOrder /\ [][NextOrder]_vars

IsReadDelayTimer(i) == i.op_code = 15 /\ i.raw[2] = 7

\* C28: a step updates the timers, then reads the key, then fetches, then
\* executes.  So FX07 reads the delay timer as the update of its own step
\* left it, decremented if the 60Hz gate fired; a timer set by FX15 or FX18
\* holds register X after the step, not decremented in it; and an
\* instruction sees the key the keypad holds at its own step.
C28_StepOrder ==
  [][\A gap \in Gaps :
       \/ /\ emu'.key = keypad
          /\ IsReadDelayTimer(Fetched) =>
               emu'.registers[X] =
                 TimerAfter(emu.delay_timer, emu.since_timer_update + gap)
          /\ SetsDelayTimer(emu) => emu'.delay_timer = emu.registers[X]
          /\ SetsSoundTimer(emu) => emu'.sound_timer = emu.registers[X]
          /\ (IsAwaitKey(Fetched) /\ keypad # None) =>
               /\ emu'.registers[X] = keypad[1]
               /\ emu'.program_counter = emu.program_counter + 2
       \/ ~StepGap(gap)]_vars

\* The delay timer was set to 3, key 15 was awaited, and the 60Hz gate has
\* fired in the step of F207: register 2 holds the decremented 2.
C28_Witness ==
  /\ last.raw = <<242, 7>>
  /\ last.fired
  /\ emu.registers[0] = 3
  /\ emu.registers[3] = 15
  /\ emu.registers[2] = 2
  /\ emu.delay_timer = 2

\* The timers in the long run.  A program sets both timers once and idles,
\* or sets the delay timer again and again in a loop, or sets the timers
\* and then returns on an empty stack; main keeps calling step, and time
\* passes between the calls again and again.
RomsCountdown ==
  RomsTimer
  \cup { InsNN(6, 0, 3) \o Ins(15, 0, 1, 5) \o InsAddr(1, START_ADDRESS + 2) }
  \cup { Prog(<<InsNN(6, 0, 3), Ins(15, 0, 1, 5), Ins(15, 0, 1, 8), Ins(0, 0, 14, 14)>>) }

InitCountdown == InitWith({DefaultConfig}, {TRUE})

NextCountdown == LoadRom(RomsCountdown) \/ Step(Gaps)

SpecCountdown ==
  InitCountdown /\ [][NextCountdown]_vars /\ WF_vars(Step(Gaps \ {0}))

\* Steps are being called and the next one sets no timer.
Quiet ==
  /\ main_pc = "loop"
  /\ Running(emu)
  /\ ~SetsDelayTimer(emu)
  /\ ~SetsSoundTimer(emu)

Silent == emu.delay_timer = 0 /\ emu.sound_timer = 0

\* C29: a step that executes no set-timer instruction increases neither
\* timer; and if from some point on steps keep being called, time passing
\* between them, and none of them executes FX15 or FX18, then both timers
\* eventually are 0 and stay 0.
C29_Countdown ==
  /\ [][/\ SetsDelayTimer(emu) \/ emu'.delay_timer <= emu.delay_timer
        /\ SetsSoundTimer(emu) \/ emu'.sound_timer <= emu.sound_timer]_vars
  /\ <>[]Quiet => <>[]Silent

\* The delay timer was set to 3 and the sound timer to 255, and both have
\* been counted down to 0 while the program idles.
C29_Witness ==
  /\ emu.registers[0] = 3
  /\ emu.registers[1] = 255
  /\ emu.program_counter = START_ADDRESS + 10
  /\ last.fired
  /\ Silent

\* The events main's loop hands to the keypad: key-down and key-up of three
\* mapped key codes (chip keys 0, 1 and 15) and of one that is not mapped,
\* and an event that is no key event.
Events ==
  { [kind |-> kind, keycode |-> keycode] :
      kind \in {"KeyDown", "KeyUp"}, keycode \in {"X", "Num1", "V", "P"} }
  \cup { [kind |-> "Quit", keycode |-> "none"] }

\* One iteration of the event loop of main: the keypad processes the event,
\* and main looks at the event itself only if the keypad returns false.
SdlEvent ==
  /\ main_pc = "loop"
  /\ Running(emu)
  /\ \E event \in Events :
       LET result == process_sdl_event(keypad, event)
       IN /\ keypad' = result.key
          /\ frame' = [frame EXCEPT !.event = Some(event), !.before = keypad,
                                    !.handled = result.handled]
  /\ UNCHANGED <<emu, main_pc, last, twin>>

\* A program that waits for a key and tests it, with SDL events of every
\* kind arriving between the steps.
RomsKeypad ==
  { Prog(<<Ins(15, 0, 0, 10), Ins(14, 0, 9, 14), Ins(14, 0, 10, 1)>>) }

InitKeypad == InitWith({DefaultConfig}, {TRUE})

NextKeypad == LoadRom(RomsKeypad) \/ Step({0}) \/ SdlEvent

SpecKeypad == InitKeypad /\ [][NextKeypad]_vars

\* The chip key of the three mapped key codes among the events.
KeyOfSample == [X |-> 0, Num1 |-> 1, V |-> 15]

\* C30: the latch holds at most one key.  A key-down of a mapped key leaves
\* that key in the latch, whatever was there; a key-up of a mapped key
\* leaves the latch empty, also when another key was latched; both return
\* true.  Any other event leaves the latch as it was and returns false.
C30_KeypadLatch ==
  [][SdlEvent =>
       LET event == frame'.event[1]
           mapped == event.keycode \in DOMAIN KeyOfSample
       IN /\ (event.kind = "KeyDown" /\ mapped) =>
               (keypad' = <<KeyOfSample[event.keycode]>> /\ frame'.handled)
          /\ (event.kind = "KeyUp" /\ mapped) =>
               (keypad' = <<>> /\ frame'.handled)
          /\ (event.kind \notin {"KeyDown", "KeyUp"} \/ ~mapped) =>
               (keypad' = keypad /\ ~frame'.handled)
          /\ Len(keypad') <= 1]_vars

\* Key 15 was latched when the key of chip key 1 was released: the latch is
\* empty.
C30_Witness ==
  /\ frame.event = Some([kind |-> "KeyUp", keycode |-> "Num1"])
  /\ frame.before = Some(15)
  /\ frame.handled
  /\ keypad = None

====
